---- MODULE Spec2Model ----
(***************************************************************************)
(* Model of the reconciliation core of marvst/properties-scraper:          *)
(* DatabaseSync.sync_properties (src/database/sync.py) running against a   *)
(* SQLite connection (src/database/connection.py), fed by the normalizer   *)
(* from_procrawl (src/database/models.py).                                 *)
(*                                                                         *)
(* The database is modelled twice: db is the committed content of the      *)
(* file, tx is what the open connection sees (committed content plus the   *)
(* uncommitted statements of the implicit transaction that Python's        *)
(* sqlite3 opens before the first INSERT/UPDATE).                          *)
(*                                                                         *)
(* The remote backend, ApiSync (src/database/api_sync.py), the selection   *)
(* of the backend by get_syncer (src/database/__init__.py) and the         *)
(* standalone sync command (src/sync.py) are modelled by SpecSync: one     *)
(* call, in which every requests.post is answered by a response or by a    *)
(* network error chosen freely.                                            *)
(***************************************************************************)
EXTENDS Integers, Sequences, FiniteSets, TLC

\* ----------------------------------------------------------------- state
VARIABLES
    db,                 \* committed content of the database file
    tx,                 \* content as seen through self.conn
    conn,               \* self.conn: "none" | "open" | "closed"
    sync_log_id,        \* self.sync_log_id (None until _start_sync_log)
    source,             \* self.source
    properties,         \* the argument of sync_properties
    i,                  \* position of the for loop (next element to process)
    stats,              \* the stats dict
    seen_external_ids,  \* the list of the same name
    pc,                 \* position inside sync_properties
    db_file,            \* whether the database file exists (connection.py 35)
    exception,          \* the exception caught by the except clause
    outcome,            \* how the last call ended: "none" | "returned" | "raised"
    raised,             \* the exception the caller received
    clock,              \* datetime.now(), one tick per call
    pre,                \* history: db when the current call began
    step,               \* history: what the last loop iteration saw and did
    runs                \* history: the calls that returned, oldest first

\* the state of one run of the remote backend (src/database/api_sync.py) and
\* of the code that selects the backend (src/database/__init__.py)
VARIABLES
    environ,            \* os.environ: VPC_API_URL and VPC_API_KEY
    syncer,             \* the class of the syncer: "none" | "ApiSync" | "DatabaseSync"
    api_pc,             \* "idle" | "post" | "response" | "done"
    api_properties,     \* the list of the same name in ApiSync.sync_properties
    batch_size,         \* the argument of the same name
    all_external_ids,   \* the list of the same name
    batches,            \* the list of the same name
    batch_no,           \* i of `for i, batch in enumerate(batches, 1)`
    total_stats,        \* the dict of the same name
    attempt,            \* attempt of the for loop of _send_with_retry
    delay,              \* delay of _send_with_retry
    last_exception,     \* last_exception of _send_with_retry
    response,           \* what the last requests.post gave: a response or an exception
    api_outcome,        \* how the call ended: "none" | "returned" | "raised"
    api_raised,         \* the exception the caller received
    api_returned,       \* the dict the caller received
    entry,              \* history: the caller, "sync.py" | "ApiSync" ("none" before)
    posts,              \* history: the requests.post calls, oldest first
    sleeps,             \* history: the time.sleep calls, oldest first
    replies,            \* history: the replies to the requests of the current batch
    accepted,           \* history: the batches whose statistics were added
    answers             \* history: the statistics that were added, oldest first

\* one call of the normalizer on a record whose values have any type
\* (src/database/models.py)
VARIABLES
    prop_data,          \* data, the argument of from_procrawl
    rails_prop          \* what from_procrawl gave: a property, or the exception

\* one run of the detail stage (src/utils/details_scraper.py)
VARIABLES
    listing,            \* properties, the argument of scrape_property_details
    max_concurrent_requests, \* self.max_concurrent_requests
    semaphore,          \* the value of the asyncio.Semaphore
    task,               \* per task of asyncio.gather: where it is
    fate,               \* per task: what its fetch gave
    results,            \* per task: what it returned to asyncio.gather
    final_properties,   \* what scrape_property_details returned
    details_pc          \* "idle" | "gather" | "done"

\* one run of crawl_all (src/main.py)
VARIABLES
    enabled_sites,      \* the list of the same name
    site_no,            \* i of `for i, site in enumerate(enabled_sites, 1)`
    failed,             \* the list of the same name
    crawl_pc,           \* where crawl_all, and crawl inside it, is
    all_results,        \* the list of the same name in crawl
    attempted,          \* history: the sites crawl was called for, oldest first
    reports,            \* history: what crawl printed about the sync of each site
    summary             \* what crawl_all printed at the end: succeeded and failed

dbVars == <<db, tx, conn, sync_log_id, source, properties, i, stats,
            seen_external_ids, pc, db_file, exception, outcome, raised, clock, pre, step, runs>>

apiVars == <<environ, syncer, api_pc, api_properties, batch_size, all_external_ids,
             batches, batch_no, total_stats, attempt, delay, last_exception, response,
             api_outcome, api_raised, api_returned, entry, posts, sleeps, replies,
             accepted, answers>>

normVars == <<prop_data, rails_prop>>

detailVars == <<listing, max_concurrent_requests, semaphore, task, fate, results,
                final_properties, details_pc>>

crawlVars == <<enabled_sites, site_no, failed, crawl_pc, all_results, attempted, reports,
               summary>>

vars == <<dbVars, apiVars, normVars, detailVars, crawlVars>>

\* ---------------------------------------------------------------- bounds
\* longest input list of one call
MaxLen == 2
\* calls of sync_properties in a behaviour of Spec
MaxRuns == 2
\* calls of sync_properties in a behaviour of SpecRoundTrip
TripRuns == 3
\* number of distinct external ids (stands for the 16^32 truncated digests)
HashSpace == 6
\* longest input list of one call of the remote backend
ApiMaxLen == 3
\* largest batch_size of one call of the remote backend
MaxBatch == 2
\* longest image_urls list of a raw record
MaxImages == 3
\* longest list handed to the detail stage, largest configured max_requests
MaxProps == 3
MaxRequests == 3
\* most site files in the sites directory
MaxSites == 2

\* ------------------------------------------------------------ input sets
None == -1

Sources == {"apolar", "galvao"}
Urls == {"/a", "/b"}
Areas == {50}
Rents == {None, 1000}
Condos == {None, 300}

RawRecords ==
    [property_url : Urls, area_sqft : Areas,
     rent_price_brl : Rents, condo_fee_brl : Condos]

\* the two listings of the removal round trip, A and B
TripRecords ==
    [property_url : Urls, area_sqft : Areas,
     rent_price_brl : {1000}, condo_fee_brl : {300}]

\* the listings A and B of the row life cycle: the rent is fixed, so each
\* listing keeps its external id while its condo fee, and so its price, varies
LifeRecords ==
    [property_url : Urls, area_sqft : Areas,
     rent_price_brl : {1000}, condo_fee_brl : Condos]

SeqsUpTo(S, n) == UNION {[1..k -> S] : k \in 0..n}

\* ------------------------------------------------------------ normalizer
SrcCode(s) == IF s = "apolar" THEN 0 ELSE 1
UrlCode(u) == IF u = "/a" THEN 0 ELSE 1
StrCode(v) == IF v = None THEN 0 ELSE 1

\* sha256(f"{source}:{url}:{area}:{price}").hexdigest()[:32]: a deterministic
\* function of the four strings into a finite space, in which two different
\* inputs can share a digest.
generate_external_id(data, src) ==
    (SrcCode(src) * 4 + UrlCode(data.property_url) * 2
        + StrCode(data.rent_price_brl)) % HashSpace

base_urls(src) ==
    IF src = "apolar" THEN "https://www.apolar.com.br"
    ELSE "https://www.imobiliariagalvao.com.br"

urljoin(base, url) == <<base, url>>

to_float(value) == IF value = None THEN None ELSE value

\* Python's `x or 0`
Or0(v) == IF v = None \/ v = 0 THEN 0 ELSE v

from_procrawl(data, src, base_url) ==
    LET rent_price == data.rent_price_brl
        condo_fee == data.condo_fee_brl
        total_price == IF rent_price # None
                       THEN rent_price + Or0(condo_fee) ELSE None
    IN [external_id |-> generate_external_id(data, src),
        source |-> src,
        area_sqm |-> to_float(data.area_sqft),
        rent_price |-> to_float(rent_price),
        condo_fee |-> to_float(condo_fee),
        total_price |-> to_float(total_price),
        original_url |-> urljoin(base_url, data.property_url),
        status |-> "active"]

\* ---------------------------------------------------------------- tables
EmptyDb == [properties |-> <<>>, price_histories |-> <<>>, sync_logs |-> <<>>]

\* SELECT id, rent_price, condo_fee FROM properties
\* WHERE external_id = ? AND source = ?  (fetchone: the first match, 0 if none)
SelectExistingAnySource(props, external_id, src) ==
    LET hits == {k \in 1..Len(props) : props[k].external_id = external_id}
    IN IF hits = {} THEN 0 ELSE CHOOSE k \in hits : \A j \in hits : k <= j

SelectExistingCommitted(props, external_id, src) ==
    LET hits == {k \in 1..Len(db.properties) :
                    /\ db.properties[k].external_id = external_id
                    /\ db.properties[k].source = src}
    IN IF hits = {} THEN 0 ELSE CHOOSE k \in hits : \A j \in hits : k <= j

SelectExistingNever(props, external_id, src) == 0

SelectExisting(props, external_id, src) ==
    LET hits == {k \in 1..Len(props) :
                    /\ props[k].external_id = external_id
                    /\ props[k].source = src}
    IN IF hits = {} THEN 0 ELSE CHOOSE k \in hits : \A j \in hits : k <= j

price_changed(old_rent, old_condo, new_rent, new_condo) ==
    old_rent # new_rent \/ old_condo # new_condo

record_price_history(hist, property_id, rent_price, condo_fee, total_price, now) ==
    Append(hist, [id |-> Len(hist) + 1,
                  property_id |-> property_id,
                  rent_price |-> rent_price,
                  condo_fee |-> condo_fee,
                  total_price |-> total_price,
                  recorded_at |-> now])

insert_property(props, prop, now) ==
    Append(props, [id |-> Len(props) + 1,
                   external_id |-> prop.external_id,
                   source |-> prop.source,
                   area_sqm |-> prop.area_sqm,
                   rent_price |-> prop.rent_price,
                   condo_fee |-> prop.condo_fee,
                   total_price |-> prop.total_price,
                   original_url |-> prop.original_url,
                   status |-> prop.status,
                   first_seen_at |-> now,
                   last_seen_at |-> now,
                   created_at |-> now,
                   updated_at |-> now])

\* the UPDATE statement of _update_property (sync.py 183-212)
UpdateRowKeepsStatus(row, prop, now) ==
    [row EXCEPT !.area_sqm = prop.area_sqm,
                !.rent_price = prop.rent_price,
                !.condo_fee = prop.condo_fee,
                !.total_price = prop.total_price,
                !.original_url = prop.original_url,
                !.last_seen_at = now,
                !.updated_at = now]

UpdateRowResetsFirstSeen(row, prop, now) ==
    [row EXCEPT !.area_sqm = prop.area_sqm,
                !.rent_price = prop.rent_price,
                !.condo_fee = prop.condo_fee,
                !.total_price = prop.total_price,
                !.original_url = prop.original_url,
                !.status = "active",
                !.first_seen_at = now,
                !.last_seen_at = now,
                !.updated_at = now]

update_row(row, prop, now) ==
    [row EXCEPT !.area_sqm = prop.area_sqm,
                !.rent_price = prop.rent_price,
                !.condo_fee = prop.condo_fee,
                !.total_price = prop.total_price,
                !.original_url = prop.original_url,
                !.status = "active",
                !.last_seen_at = now,
                !.updated_at = now]

\* the price-history part of _update_property (sync.py 171-178)
old_total(row) == Or0(row.rent_price) + Or0(row.condo_fee)

HistoryAfterUpdateAlways(t, k, prop, now) ==
    record_price_history(t.price_histories, t.properties[k].id,
                         t.properties[k].rent_price, t.properties[k].condo_fee,
                         old_total(t.properties[k]), now)

HistoryAfterUpdateNewValues(t, k, prop, now) ==
    LET row == t.properties[k]
    IN IF price_changed(row.rent_price, row.condo_fee, prop.rent_price, prop.condo_fee)
       THEN record_price_history(t.price_histories, row.id, prop.rent_price,
                                 prop.condo_fee, prop.total_price, now)
       ELSE t.price_histories

HistoryAfterUpdate(t, k, prop, now) ==
    LET row == t.properties[k]
    IN IF price_changed(row.rent_price, row.condo_fee, prop.rent_price, prop.condo_fee)
       THEN record_price_history(t.price_histories, row.id, row.rent_price,
                                 row.condo_fee, old_total(row), now)
       ELSE t.price_histories

SeqToSet(s) == {s[k] : k \in 1..Len(s)}

\* UPDATE properties SET status = 'removed' WHERE source = ? AND
\* status = 'active' AND external_id NOT IN (seen); nothing for an empty list
MarkRemovedNothing(props, src, seen) == props

MarkRemovedDeletes(props, src, seen) ==
    IF seen = <<>> THEN props
    ELSE SelectSeq(props, LAMBDA row : ~(/\ row.source = src
                                         /\ row.status = "active"
                                         /\ row.external_id \notin SeqToSet(seen)))

MarkRemovedTouchesLastSeen(props, src, seen) ==
    IF seen = <<>> THEN props
    ELSE [k \in 1..Len(props) |->
            IF /\ props[k].source = src
               /\ props[k].status = "active"
               /\ props[k].external_id \notin SeqToSet(seen)
            THEN [props[k] EXCEPT !.status = "removed", !.last_seen_at = clock]
            ELSE props[k]]

mark_removed_properties(props, src, seen) ==
    IF seen = <<>> THEN props
    ELSE [k \in 1..Len(props) |->
            IF /\ props[k].source = src
               /\ props[k].status = "active"
               /\ props[k].external_id \notin SeqToSet(seen)
            THEN [props[k] EXCEPT !.status = "removed"]
            ELSE props[k]]

start_sync_log(logs, src, now) ==
    Append(logs, [id |-> Len(logs) + 1,
                  source |-> src,
                  status |-> "running",
                  started_at |-> now,
                  finished_at |-> None,
                  properties_found |-> None,
                  properties_added |-> None,
                  properties_updated |-> None,
                  error_message |-> "none"])

\* UPDATE sync_logs SET ... WHERE id = ?  (no row with that id: nothing changes)
finish_sync_log(logs, log_id, c, status, error, st, now) ==
    IF log_id = None \/ c # "open" THEN logs
    ELSE [k \in 1..Len(logs) |->
            IF logs[k].id = log_id
            THEN [logs[k] EXCEPT !.status = status,
                                 !.finished_at = now,
                                 !.properties_found = st.found,
                                 !.properties_added = st.added,
                                 !.properties_updated = st.updated,
                                 !.error_message = error]
            ELSE logs[k]]

\* The except clause of sync_properties (sync.py 54-58): what is committed and
\* what the connection sees once the handler has run.
ExceptHandlerCommits(committed, working, log_id, c, error, st, now) ==
    LET t == [working EXCEPT !.sync_logs =
                  finish_sync_log(working.sync_logs, log_id, c, "failed", error, st, now)]
    IN [db |-> IF c = "open" THEN t ELSE committed, tx |-> t]

except_handler(committed, working, log_id, c, error, st, now) ==
    LET rolled == IF c = "open" THEN committed ELSE working
    IN [db |-> committed,
        tx |-> [rolled EXCEPT !.sync_logs =
                   finish_sync_log(rolled.sync_logs, log_id, c, "failed", error, st, now)]]

\* --------------------------------------------------------- remote backend
\* the defaults of _send_with_retry (api_sync.py 113-114)
max_retries == 3
initial_delay == 1

\* os.environ.get(name): None ("unset"), the empty string, or a value
EnvValues == {"unset", "", "set"}
Environs == [VPC_API_URL : EnvValues, VPC_API_KEY : EnvValues]
NoEnviron == [VPC_API_URL |-> "unset", VPC_API_KEY |-> "unset"]

\* Python's truth value of what os.environ.get returned
Truthy(v) == v # "unset" /\ v # ""

\* ApiSync.__init__ (api_sync.py 15-30): the exception it raises, "none" when
\* the object is constructed
ApiSync_init(env) ==
    IF ~Truthy(env.VPC_API_URL) THEN "ValueError"
    ELSE IF ~Truthy(env.VPC_API_KEY) THEN "ValueError"
    ELSE "none"

\* get_syncer (database/__init__.py 8-22): the class of the object returned,
\* or the exception that leaves the constructor
GetSyncerFallsBack(env) ==
    IF Truthy(env.VPC_API_URL) /\ ApiSync_init(env) = "none"
    THEN [cls |-> "ApiSync", raised |-> "none"]
    ELSE [cls |-> "DatabaseSync", raised |-> "none"]

get_syncer(env) ==
    IF Truthy(env.VPC_API_URL)
    THEN [cls |-> IF ApiSync_init(env) = "none" THEN "ApiSync" ELSE "none",
          raised |-> ApiSync_init(env)]
    ELSE [cls |-> "DatabaseSync", raised |-> "none"]

\* the parameters of sync_properties besides self (api_sync.py 32, sync.py 26)
sync_properties_params(cls) ==
    IF cls = "ApiSync" THEN {"properties", "batch_size"} ELSE {"properties"}

\* _property_to_dict (api_sync.py 90-108)
property_to_dict(prop) ==
    [external_id |-> prop.external_id,
     area_sqm |-> prop.area_sqm,
     rent_price |-> prop.rent_price,
     condo_fee |-> prop.condo_fee,
     total_price |-> prop.total_price,
     original_url |-> prop.original_url]

BatchesDropsRemainder(seq, n) ==
    [k \in 1..(Len(seq) \div n) |-> SubSeq(seq, (k - 1) * n + 1, k * n)]

\* [api_properties[i : i + batch_size] for i in range(0, len, batch_size)]
Batches(seq, n) ==
    [k \in 1..((Len(seq) + n - 1) \div n) |->
        SubSeq(seq, (k - 1) * n + 1,
               IF k * n < Len(seq) THEN k * n ELSE Len(seq))]

IsLastBatchNever(k, n) == FALSE

is_last_batch(k, n) == k = n

\* the payload of batch k (api_sync.py 64-73); keys: the keys of the dict
PayloadBatchIdsOnly(k, bts, ids, src, base_url) ==
    [keys |-> {"source", "base_url", "properties", "finalize"}
                \cup IF is_last_batch(k, Len(bts)) THEN {"all_external_ids"} ELSE {},
     source |-> src,
     base_url |-> base_url,
     properties |-> bts[k],
     finalize |-> is_last_batch(k, Len(bts)),
     all_external_ids |-> IF is_last_batch(k, Len(bts))
                          THEN [j \in 1..Len(bts[k]) |-> bts[k][j].external_id]
                          ELSE <<>>]

build_payload(k, bts, ids, src, base_url) ==
    [keys |-> {"source", "base_url", "properties", "finalize"}
                \cup IF is_last_batch(k, Len(bts)) THEN {"all_external_ids"} ELSE {},
     source |-> src,
     base_url |-> base_url,
     properties |-> bts[k],
     finalize |-> is_last_batch(k, Len(bts)),
     all_external_ids |-> IF is_last_batch(k, Len(bts)) THEN ids ELSE <<>>]

ZeroStats == [added |-> 0, updated |-> 0, found |-> 0, removed |-> 0]

\* total_stats[key] += stats.get(key, 0)  (api_sync.py 82-86)
add_stats(total, st) ==
    [added |-> total.added + st.added,
     updated |-> total.updated + st.updated,
     found |-> total.found + st.found,
     removed |-> total.removed + st.removed]

\* what requests.post gives: an exception of the network level, or a response
\* with a status code and, in its JSON body, a status and statistics
NoReply == [exception |-> "none", status_code |-> 0, status |-> "none",
            statistics |-> ZeroStats]
ReplyStats ==
    {[added |-> 1, updated |-> 0, found |-> 1, removed |-> 0],
     [added |-> 0, updated |-> 1, found |-> 1, removed |-> 1]}
StatusCodes == {200, 404, 503}
Replies ==
    {[exception |-> "none", status_code |-> 200, status |-> "success", statistics |-> st] :
        st \in ReplyStats}
    \cup {[exception |-> "none", status_code |-> 200, status |-> "error",
           statistics |-> [added |-> 1, updated |-> 1, found |-> 1, removed |-> 1]]}
    \cup {[exception |-> "none", status_code |-> c, status |-> "error",
           statistics |-> ZeroStats] : c \in StatusCodes \ {200}}
    \cup {[exception |-> "Timeout", status_code |-> 0, status |-> "none",
           statistics |-> ZeroStats]}

\* the exception that stands for the reply: the one requests.post raised, or
\* the one response.raise_for_status() raises
exc_of(reply) ==
    IF reply.exception # "none" THEN reply.exception
    ELSE IF reply.status_code >= 400 THEN "HTTPError"
    ELSE "none"

\* delay *= 2  (api_sync.py 154, 164)
NextDelayConstant(d) == d

next_delay(d) == d * 2

\* One iteration of the for loop of _send_with_retry once requests.post has
\* answered (api_sync.py 146-166). next: "return" | "retry" (sleep, double the
\* delay, continue) | "raise"; caught: the except clause ran. HTTPError is a
\* requests.RequestException, and raise_for_status() is called inside the try
\* block, so the HTTPError of lines 148 and 156 is caught at line 160.
AfterPostRetriesAppError(reply, att, retries) ==
    LET handler == [next |-> IF att < retries THEN "retry" ELSE "raise", caught |-> TRUE]
    IN IF reply.exception # "none" THEN handler
       ELSE IF 400 <= reply.status_code /\ reply.status_code < 500 THEN handler
       ELSE IF reply.status_code >= 500
            THEN IF att < retries THEN [next |-> "retry", caught |-> FALSE] ELSE handler
       ELSE IF reply.status = "error"
            THEN [next |-> IF att < retries THEN "retry" ELSE "return", caught |-> FALSE]
       ELSE [next |-> "return", caught |-> FALSE]

after_post(reply, att, retries) ==
    LET handler == [next |-> IF att < retries THEN "retry" ELSE "raise", caught |-> TRUE]
    IN IF reply.exception # "none" THEN handler
       ELSE IF 400 <= reply.status_code /\ reply.status_code < 500 THEN handler
       ELSE IF reply.status_code >= 500
            THEN IF att < retries THEN [next |-> "retry", caught |-> FALSE] ELSE handler
       ELSE [next |-> "return", caught |-> FALSE]

\* what sync_properties does with the response _send_with_retry returned
\* (api_sync.py 76-80): the exception it raises, "none" when it goes on
CheckResponseIgnoresStatus(reply) ==
    IF reply.status_code >= 400 THEN "HTTPError" ELSE "none"

check_response(reply) ==
    IF reply.status_code >= 400 THEN "HTTPError"
    ELSE IF reply.status = "error" THEN "RuntimeError"
    ELSE "none"

NoReturn == [returned |-> FALSE]

\* -------------------------------------------- normalizer on typed values
\* A Python value of a raw record: None (also a missing key, data.get gives
\* None), an int, a str (the sequence of its characters) or a list.
PyNone == [type |-> "NoneType"]
PyInt(n) == [type |-> "int", n |-> n]
PyStr(chars) == [type |-> "str", s |-> chars]
PyList(items) == [type |-> "list", items |-> items]

NumericValues ==
    {PyNone, PyInt(0), PyInt(10), PyStr(<<"1", "0">>), PyStr(<<"a">>), PyStr(<<>>),
     PyList(<<>>)}
AreaValues == {PyInt(50), PyStr(<<"5", "0">>), PyList(<<PyInt(50)>>)}
ImageUrls == {"u", "v"}
ImageValues ==
    {PyNone, PyStr(<<>>), PyStr(<<"u">>)}
    \cup {PyList(items) : items \in SeqsUpTo(ImageUrls, MaxImages)}

TypedRecords ==
    [rent_price_brl : NumericValues,
     condo_fee_brl : NumericValues,
     area_sqft : AreaValues,
     bedrooms : {PyInt(2), PyStr(<<"a">>)},
     image_urls : ImageValues]

NoData ==
    [rent_price_brl |-> PyNone, condo_fee_brl |-> PyNone, area_sqft |-> PyNone,
     bedrooms |-> PyNone, image_urls |-> PyNone]

\* bool(value)
py_truthy(v) ==
    CASE v.type = "NoneType" -> FALSE
      [] v.type = "int" -> v.n # 0
      [] v.type = "str" -> v.s # <<>>
      [] v.type = "list" -> v.items # <<>>

Digits == {"0", "1", "2", "3", "4", "5", "6", "7", "8", "9"}
DigitValue(c) ==
    CASE c = "0" -> 0 [] c = "1" -> 1 [] c = "2" -> 2 [] c = "3" -> 3 [] c = "4" -> 4
      [] c = "5" -> 5 [] c = "6" -> 6 [] c = "7" -> 7 [] c = "8" -> 8 [] c = "9" -> 9

RECURSIVE ParseDigits(_)
ParseDigits(chars) ==
    IF chars = <<>> THEN 0
    ELSE ParseDigits(SubSeq(chars, 1, Len(chars) - 1)) * 10 + DigitValue(chars[Len(chars)])

\* float(value) and int(value) on these values: the number, or the exception
py_number(v) ==
    CASE v.type = "int" -> [raises |-> "none", n |-> v.n]
      [] v.type = "str" ->
            IF v.s # <<>> /\ \A k \in 1..Len(v.s) : v.s[k] \in Digits
            THEN [raises |-> "none", n |-> ParseDigits(v.s)]
            ELSE [raises |-> "ValueError", n |-> None]
      [] OTHER -> [raises |-> "TypeError", n |-> None]

\* _to_float and _to_int (models.py 112-129): None for None and for what
\* float() or int() refuses
to_number(v) ==
    IF v.type = "NoneType" THEN None
    ELSE IF py_number(v).raises \in {"ValueError", "TypeError"} THEN None
    ELSE py_number(v).n

\* a + b
py_add(a, b) ==
    CASE a.type = "int" /\ b.type = "int" -> [raises |-> "none", value |-> PyInt(a.n + b.n)]
      [] a.type = "str" /\ b.type = "str" -> [raises |-> "none", value |-> PyStr(a.s \o b.s)]
      [] a.type = "list" /\ b.type = "list" ->
            [raises |-> "none", value |-> PyList(a.items \o b.items)]
      [] OTHER -> [raises |-> "TypeError", value |-> PyNone]

\* image_urls of from_procrawl (models.py 68-73), for a str, a list or no value
image_urls_of(raw) ==
    CASE raw.type = "str" -> IF raw.s # <<>> THEN <<raw.s>> ELSE <<>>
      [] raw.type = "list" -> raw.items
      [] OTHER -> <<>>

\* from_procrawl (models.py 47-109) on a record of typed values: the
\* exception that leaves it, or the numeric and image fields of the property
from_procrawl_typed(d) ==
    LET image_urls == image_urls_of(d.image_urls)
        main_image_url == IF image_urls # <<>> THEN image_urls[1] ELSE None
        rent_price == d.rent_price_brl
        condo_fee == d.condo_fee_brl
        sum == py_add(rent_price, IF py_truthy(condo_fee) THEN condo_fee ELSE PyInt(0))
        total_price == IF rent_price.type # "NoneType" THEN sum.value ELSE PyNone
    IN IF rent_price.type # "NoneType" /\ sum.raises # "none"
       THEN [raises |-> sum.raises]
       ELSE [raises |-> "none",
             bedrooms |-> to_number(d.bedrooms),
             area_sqm |-> to_number(d.area_sqft),
             rent_price |-> to_number(rent_price),
             condo_fee |-> to_number(condo_fee),
             total_price |-> to_number(total_price),
             main_image_url |-> main_image_url,
             image_urls |-> image_urls]

NotYet == [raises |-> "not called"]

\* max_requests of the scraper configuration when the site file gives none
default_max_requests == 2

NoSummary == [succeeded |-> -1, failed |-> <<>>]

\* ------------------------------------------------------------------ init
NoStep == [result |-> "none"]

InitDb ==
    /\ db = EmptyDb
    /\ tx = EmptyDb
    /\ conn = "none"
    /\ sync_log_id = None
    /\ source = "apolar"
    /\ properties = <<>>
    /\ i = 1
    /\ stats = [added |-> 0, updated |-> 0, found |-> 0]
    /\ seen_external_ids = <<>>
    /\ pc = "idle"
    /\ db_file \in BOOLEAN
    /\ exception = "none"
    /\ outcome = "none"
    /\ raised = "none"
    /\ clock = 0
    /\ pre = EmptyDb
    /\ step = NoStep
    /\ runs = <<>>

\* no call of the remote backend has been made
InitApi ==
    /\ syncer = "none"
    /\ api_pc = "idle"
    /\ api_properties = <<>>
    /\ batch_size = 0
    /\ all_external_ids = <<>>
    /\ batches = <<>>
    /\ batch_no = 0
    /\ total_stats = ZeroStats
    /\ attempt = 0
    /\ delay = 0
    /\ last_exception = "none"
    /\ response = NoReply
    /\ api_outcome = "none"
    /\ api_raised = "none"
    /\ api_returned = NoReturn
    /\ entry = "none"
    /\ posts = <<>>
    /\ sleeps = <<>>
    /\ replies = {}
    /\ accepted = <<>>
    /\ answers = <<>>

\* from_procrawl has not been called
InitNorm ==
    /\ prop_data = NoData
    /\ rails_prop = NotYet

\* the detail stage has not been run
InitDetails ==
    /\ listing = <<>>
    /\ max_concurrent_requests = default_max_requests
    /\ semaphore = 0
    /\ task = <<>>
    /\ fate = <<>>
    /\ results = <<>>
    /\ final_properties = <<>>
    /\ details_pc = "idle"

\* crawl_all has not been run
InitCrawl ==
    /\ enabled_sites = <<>>
    /\ site_no = 0
    /\ failed = <<>>
    /\ crawl_pc = "idle"
    /\ all_results = <<>>
    /\ attempted = <<>>
    /\ reports = <<>>
    /\ summary = NoSummary

Init ==
    /\ InitDb
    /\ InitApi
    /\ environ = NoEnviron
    /\ InitNorm
    /\ InitDetails
    /\ InitCrawl


\* ---------------------------------------------------------------- actions
Now == clock

\* get_syncer + sync_properties up to get_connection (sync.py 14-24, 35-39;
\* connection.py 33-40). Every call is made on a new DatabaseSync, as the
\* callers do (main.py 267-269, sync.py 93-94).
Call(src, props) ==
    /\ pc \in {"idle", "done"}
    /\ clock' = clock + 1
    /\ source' = src
    /\ properties' = props
    /\ stats' = [added |-> 0, updated |-> 0, found |-> Len(props)]
    /\ seen_external_ids' = <<>>
    /\ sync_log_id' = None
    /\ i' = 1
    /\ pre' = db
    /\ step' = NoStep
    /\ outcome' = "none"
    /\ raised' = "none"
    /\ IF db_file
       THEN /\ conn' = "open"
            /\ tx' = db
            /\ exception' = "none"
            /\ pc' = "start_log"
       ELSE /\ conn' = "none"
            /\ tx' = tx
            /\ exception' = "FileNotFoundError"
            /\ pc' = "except"
    /\ UNCHANGED <<db, db_file, runs>>
    /\ UNCHANGED <<apiVars, normVars, detailVars>>

SyncProperties ==
    /\ clock < MaxRuns
    /\ \E src \in Sources, props \in SeqsUpTo(RawRecords, MaxLen) : Call(src, props)
    /\ UNCHANGED crawlVars

\* a statement on self.conn raises (sqlite3.Error): control goes to the except
\* clause with whatever the transaction holds so far
Raise(t) ==
    /\ tx' = t
    /\ exception' = "sqlite3.Error"
    /\ pc' = "except"

AfterLoop(n) == IF n > Len(properties) THEN "mark" ELSE "loop"

\* self._start_sync_log()  (sync.py 40, 66-76)
StartSyncLog(fail) ==
    /\ pc = "start_log"
    /\ IF fail
       THEN /\ Raise(tx)
            /\ UNCHANGED sync_log_id
       ELSE /\ tx' = [tx EXCEPT !.sync_logs = start_sync_log(tx.sync_logs, source, Now)]
            /\ sync_log_id' = Len(tx.sync_logs) + 1
            /\ pc' = AfterLoop(1)
            /\ UNCHANGED exception
    /\ UNCHANGED <<db, db_file, conn, source, properties, i, stats, seen_external_ids,
                   outcome, raised, clock, pre, step, runs>>
    /\ UNCHANGED <<apiVars, normVars, detailVars, crawlVars>>

StartLog == \E fail \in BOOLEAN : StartSyncLog(fail)

FailPoints == {"no", "select", "history", "write"}

\* one iteration of the for loop (sync.py 42-46) with _upsert_property,
\* _insert_property and _update_property (sync.py 104-212). fp: the statement
\* of this iteration that raises, if any.
UpsertProperty(fp) ==
    /\ pc = "loop"
    /\ i <= Len(properties)
    /\ LET prop == from_procrawl(properties[i], source, base_urls(source))
           k == SelectExisting(tx.properties, prop.external_id, prop.source)
           hist1 == IF k # 0 THEN HistoryAfterUpdate(tx, k, prop, Now)
                    ELSE tx.price_histories
           props1 == IF k # 0
                     THEN [tx.properties EXCEPT ![k] = update_row(@, prop, Now)]
                     ELSE insert_property(tx.properties, prop, Now)
           result == IF k # 0 THEN "updated" ELSE "added"
           after == CASE fp = "no" ->
                           [tx EXCEPT !.price_histories = hist1, !.properties = props1]
                      [] fp = "write" -> [tx EXCEPT !.price_histories = hist1]
                      [] OTHER -> tx
       IN /\ seen_external_ids' = Append(seen_external_ids, prop.external_id)
          /\ fp = "history" => hist1 # tx.price_histories
          /\ step' = [result |-> IF fp = "no" THEN result ELSE "raised",
                      fp |-> fp, prop |-> prop, before |-> tx, after |-> after]
          /\ IF fp = "no"
             THEN /\ tx' = after
                  /\ stats' = [stats EXCEPT ![result] = @ + 1]
                  /\ i' = i + 1
                  /\ pc' = AfterLoop(i + 1)
                  /\ UNCHANGED exception
             ELSE /\ Raise(after)
                  /\ UNCHANGED <<i, stats>>
    /\ UNCHANGED <<db, db_file, conn, sync_log_id, source, properties, outcome, raised,
                   clock, pre, runs>>
    /\ UNCHANGED <<apiVars, normVars, detailVars, crawlVars>>

Upsert == \E fp \in FailPoints : UpsertProperty(fp)

\* self._mark_removed_properties(seen_external_ids)  (sync.py 49, 243-257)
MarkRemoved(fail) ==
    /\ pc = "mark"
    /\ fail => seen_external_ids # <<>>
    /\ IF fail
       THEN Raise(tx)
       ELSE /\ tx' = [tx EXCEPT !.properties =
                         mark_removed_properties(@, source, seen_external_ids)]
            /\ pc' = "finish"
            /\ UNCHANGED exception
    /\ UNCHANGED <<db, db_file, conn, sync_log_id, source, properties, i, stats,
                   seen_external_ids, outcome, raised, clock, pre, step, runs>>
    /\ UNCHANGED <<apiVars, normVars, detailVars, crawlVars>>

MarkRemovedProperties == \E fail \in BOOLEAN : MarkRemoved(fail)

\* self._finish_sync_log("completed", None, stats)  (sync.py 51, 78-102)
FinishSyncLog(fail) ==
    /\ pc = "finish"
    /\ IF fail
       THEN Raise(tx)
       ELSE /\ tx' = [tx EXCEPT !.sync_logs =
                         finish_sync_log(@, sync_log_id, conn, "completed",
                                         "none", stats, Now)]
            /\ pc' = "commit"
            /\ UNCHANGED exception
    /\ UNCHANGED <<db, db_file, conn, sync_log_id, source, properties, i, stats,
                   seen_external_ids, outcome, raised, clock, pre, step, runs>>
    /\ UNCHANGED <<apiVars, normVars, detailVars, crawlVars>>

FinishLog == \E fail \in BOOLEAN : FinishSyncLog(fail)

\* self.conn.commit()  (sync.py 52), then the return of line 64
ConnCommit(fail) ==
    /\ pc = "commit"
    /\ IF fail
       THEN /\ Raise(tx)
            /\ UNCHANGED <<db, outcome>>
       ELSE /\ db' = tx
            /\ tx' = tx
            /\ outcome' = "returned"
            /\ pc' = "finally"
            /\ UNCHANGED exception
    /\ UNCHANGED <<db_file, conn, sync_log_id, source, properties, i, stats,
                   seen_external_ids, raised, clock, pre, step, runs>>
    /\ UNCHANGED <<apiVars, normVars, detailVars, crawlVars>>

Commit == \E fail \in BOOLEAN : ConnCommit(fail)

\* the except clause (sync.py 54-58). fail: the UPDATE of _finish_sync_log
\* raises in its turn, and that error is what leaves the handler.
ExceptClause(fail) ==
    /\ pc = "except"
    /\ fail => (sync_log_id # None /\ conn = "open")
    /\ LET h == except_handler(db, tx, sync_log_id, conn, exception, stats, Now)
       IN /\ db' = h.db
          /\ tx' = IF fail THEN db ELSE h.tx
    /\ raised' = IF fail THEN "sqlite3.Error in handler" ELSE exception
    /\ outcome' = "raised"
    /\ pc' = "finally"
    /\ UNCHANGED <<db_file, conn, sync_log_id, source, properties, i, stats,
                   seen_external_ids, exception, clock, pre, step, runs>>
    /\ UNCHANGED <<apiVars, normVars, detailVars, crawlVars>>

Except == \E fail \in BOOLEAN : ExceptClause(fail)

\* the finally clause (sync.py 60-62; connection.py 43-46): closing the
\* connection drops whatever was not committed
Finally ==
    /\ pc = "finally"
    /\ conn' = IF conn = "open" THEN "closed" ELSE conn
    /\ tx' = db
    /\ runs' = IF outcome = "returned"
               THEN Append(runs, [source |-> source,
                                  properties |-> properties,
                                  seen |-> seen_external_ids,
                                  stats |-> stats,
                                  pre |-> pre,
                                  post |-> db])
               ELSE runs
    /\ pc' = "done"
    /\ UNCHANGED <<db, db_file, sync_log_id, source, properties, i, stats,
                   seen_external_ids, exception, outcome, raised, clock, pre, step>>
    /\ UNCHANGED <<apiVars, normVars, detailVars, crawlVars>>

Next ==
    \/ SyncProperties
    \/ StartLog
    \/ Upsert
    \/ MarkRemovedProperties
    \/ FinishLog
    \/ Commit
    \/ Except
    \/ Finally

Spec == Init /\ [][Next]_vars

\* Three runs in a row for one source over the listings A and B.
SyncPropertiesRoundTrip ==
    /\ clock < TripRuns
    /\ \E props \in SeqsUpTo(TripRecords, MaxLen) : Call("apolar", props)
    /\ UNCHANGED crawlVars

NextRoundTrip ==
    \/ SyncPropertiesRoundTrip
    \/ StartLog
    \/ Upsert
    \/ MarkRemovedProperties
    \/ FinishLog
    \/ Commit
    \/ Except
    \/ Finally

SpecRoundTrip == Init /\ [][NextRoundTrip]_vars

\* Three runs in a row for one source over the listings A and B, whose price
\* may differ from one run to the next.
SyncPropertiesLifecycle ==
    /\ clock < TripRuns
    /\ \E props \in SeqsUpTo(LifeRecords, MaxLen) : Call("apolar", props)
    /\ UNCHANGED crawlVars

NextLifecycle ==
    \/ SyncPropertiesLifecycle
    \/ StartLog
    \/ Upsert
    \/ MarkRemovedProperties
    \/ FinishLog
    \/ Commit
    \/ Except
    \/ Finally

SpecLifecycle == Init /\ [][NextLifecycle]_vars


\* ------------------------------------------------- remote backend: actions
\* an exception leaves sync_properties, get_syncer or the constructor
ApiRaise(exc) ==
    /\ api_pc' = "done"
    /\ api_outcome' = "raised"
    /\ api_raised' = exc
    /\ UNCHANGED api_returned

\* ApiSync.sync_properties up to the first request (api_sync.py 42-61)
StartSyncProperties(props, n) ==
    LET api_props == [k \in 1..Len(props) |->
                        property_to_dict(from_procrawl(props[k], source, base_urls(source)))]
        bts == Batches(api_props, n)
    IN /\ api_properties' = api_props
       /\ batch_size' = n
       /\ all_external_ids' = [k \in 1..Len(api_props) |-> api_props[k].external_id]
       /\ batches' = bts
       /\ total_stats' = ZeroStats
       /\ IF bts = <<>>
          THEN /\ api_pc' = "done"
               /\ api_outcome' = "returned"
               /\ api_returned' = ZeroStats
               /\ UNCHANGED <<batch_no, delay, api_raised>>
          ELSE /\ api_pc' = "post"
               /\ batch_no' = 1
               /\ delay' = initial_delay
               /\ UNCHANGED <<api_outcome, api_raised, api_returned>>

\* The standalone sync command (src/sync.py 71-73, 91-107): a non-empty list,
\* get_syncer, then sync_properties(properties, batch_size=n).
SyncCommand ==
    /\ api_pc = "idle"
    /\ entry' = "sync.py"
    /\ \E props \in SeqsUpTo(TripRecords, ApiMaxLen) \ {<<>>}, n \in 1..MaxBatch :
          LET g == get_syncer(environ)
          IN /\ syncer' = g.cls
             /\ IF g.raised # "none"
                THEN /\ ApiRaise(g.raised)
                     /\ UNCHANGED <<api_properties, batch_size, all_external_ids, batches,
                                    batch_no, total_stats, delay>>
                ELSE IF ~({"properties", "batch_size"} \subseteq sync_properties_params(g.cls))
                THEN /\ ApiRaise("TypeError")
                     /\ UNCHANGED <<api_properties, batch_size, all_external_ids, batches,
                                    batch_no, total_stats, delay>>
                ELSE StartSyncProperties(props, n)
    /\ UNCHANGED <<environ, attempt, last_exception, response, posts, sleeps, replies,
                   accepted, answers>>
    /\ UNCHANGED <<dbVars, normVars, detailVars, crawlVars>>

\* ApiSync(source, base_url).sync_properties(properties, batch_size) called
\* on the class itself (api_sync.py 15-42)
ApiSyncCall ==
    /\ api_pc = "idle"
    /\ entry' = "ApiSync"
    /\ \E props \in SeqsUpTo(TripRecords, ApiMaxLen), n \in 1..MaxBatch :
          LET e == ApiSync_init(environ)
          IN /\ syncer' = IF e = "none" THEN "ApiSync" ELSE "none"
             /\ IF e # "none"
                THEN /\ ApiRaise(e)
                     /\ UNCHANGED <<api_properties, batch_size, all_external_ids, batches,
                                    batch_no, total_stats, delay>>
                ELSE StartSyncProperties(props, n)
    /\ UNCHANGED <<environ, attempt, last_exception, response, posts, sleeps, replies,
                   accepted, answers>>
    /\ UNCHANGED <<dbVars, normVars, detailVars, crawlVars>>

\* one iteration of the for loop of _send_with_retry (api_sync.py 137-166):
\* requests.post answers with reply
SendAttempt(reply) ==
    /\ api_pc = "post"
    /\ posts' = Append(posts, [i |-> batch_no,
                               attempt |-> attempt,
                               payload |-> build_payload(batch_no, batches, all_external_ids,
                                                         source, base_urls(source))])
    /\ response' = reply
    /\ replies' = replies \cup {reply}
    /\ LET what == after_post(reply, attempt, max_retries)
       IN /\ last_exception' = IF what.caught THEN exc_of(reply) ELSE last_exception
          /\ CASE what.next = "return" ->
                    /\ api_pc' = "response"
                    /\ UNCHANGED <<attempt, delay, sleeps, api_outcome, api_raised,
                                   api_returned>>
               [] what.next = "retry" ->
                    /\ sleeps' = Append(sleeps, [i |-> batch_no, seconds |-> delay])
                    /\ delay' = next_delay(delay)
                    /\ attempt' = attempt + 1
                    /\ UNCHANGED <<api_pc, api_outcome, api_raised, api_returned>>
               [] what.next = "raise" ->
                    /\ ApiRaise(exc_of(reply))
                    /\ UNCHANGED <<attempt, delay, sleeps>>
    /\ UNCHANGED <<environ, syncer, api_properties, batch_size, all_external_ids, batches,
                   batch_no, total_stats, entry, accepted, answers>>
    /\ UNCHANGED <<dbVars, normVars, detailVars, crawlVars>>

Post == \E reply \in Replies : SendAttempt(reply)

\* the rest of the loop body of sync_properties once _send_with_retry has
\* returned (api_sync.py 76-86), then the next batch with a new
\* _send_with_retry call (api_sync.py 134-135), or the return of line 88
HandleResponse ==
    /\ api_pc = "response"
    /\ IF check_response(response) # "none"
       THEN /\ ApiRaise(check_response(response))
            /\ UNCHANGED <<total_stats, accepted, answers, batch_no, attempt, delay,
                           last_exception, replies>>
       ELSE /\ total_stats' = add_stats(total_stats, response.statistics)
            /\ accepted' = Append(accepted, batch_no)
            /\ answers' = Append(answers, response.statistics)
            /\ IF batch_no = Len(batches)
               THEN /\ api_pc' = "done"
                    /\ api_outcome' = "returned"
                    /\ api_returned' = add_stats(total_stats, response.statistics)
                    /\ UNCHANGED <<batch_no, attempt, delay, last_exception, api_raised,
                                   replies>>
               ELSE /\ api_pc' = "post"
                    /\ batch_no' = batch_no + 1
                    /\ attempt' = 0
                    /\ delay' = initial_delay
                    /\ last_exception' = "none"
                    /\ replies' = {}
                    /\ UNCHANGED <<api_outcome, api_raised, api_returned>>
    /\ UNCHANGED <<environ, syncer, api_properties, batch_size, all_external_ids, batches,
                   response, entry, posts, sleeps>>
    /\ UNCHANGED <<dbVars, normVars, detailVars, crawlVars>>

\* one call of the remote backend, or of the sync command, per behaviour,
\* under every setting of the two environment variables
InitSync ==
    /\ InitDb
    /\ db_file
    /\ InitApi
    /\ environ \in Environs
    /\ InitNorm
    /\ InitDetails
    /\ InitCrawl

NextSync ==
    \/ SyncCommand
    \/ ApiSyncCall
    \/ Post
    \/ HandleResponse

SpecSync == InitSync /\ [][NextSync]_vars


\* ------------------------------------------------------ normalizer: action
\* rails_prop = from_procrawl(prop_data, self.source, self.base_url)
\* (sync.py 43, api_sync.py 45)
FromProcrawl ==
    /\ rails_prop = NotYet
    /\ rails_prop' = from_procrawl_typed(prop_data)
    /\ UNCHANGED prop_data
    /\ UNCHANGED <<dbVars, apiVars, detailVars, crawlVars>>

\* one call of from_procrawl on every record of typed values
InitNormalize ==
    /\ InitDb
    /\ db_file
    /\ InitApi
    /\ environ = NoEnviron
    /\ prop_data \in TypedRecords
    /\ rails_prop = NotYet
    /\ InitDetails
    /\ InitCrawl

NextNormalize == FromProcrawl

SpecNormalize == InitNormalize /\ [][NextNormalize]_vars


\* ----------------------------------------------------------- detail stage
\* listing records: two share a property_url, one has none
Listings ==
    {[property_url |-> "/a", title |-> "x", description |-> ""],
     [property_url |-> "/a", title |-> "y", description |-> ""],
     [property_url |-> "/b", title |-> "x", description |-> ""],
     [property_url |-> "", title |-> "z", description |-> ""]}

\* setup.concurrency.max_requests of the site configuration, None without a
\* concurrency section (details_scraper.py 154-161)
max_requests_of(concurrency) ==
    IF concurrency # None THEN concurrency ELSE default_max_requests

\* prop.get("property_url") and isinstance(prop.get("property_url"), str)
valid_url(prop) == prop.property_url # ""

\* valid_properties (details_scraper.py 253-257)
valid_properties(props) == SelectSeq(props, valid_url)

\* what crawler.arun and the parsing of its content give (details_scraper.py
\* 396-463), or an exception raised inside _scrape_single_property
Fates == {"enhanced", "unsuccessful", "empty", "unparsable", "exception"}

\* _post_process_llm_extracted_details(details, property_data): the record
\* with the extracted details merged in
enhance(prop) == [prop EXCEPT !.description = "d"]

\* what the task of prop returns (details_scraper.py 299-309, 396-463)
task_result(prop, f) == IF f = "enhanced" THEN enhance(prop) ELSE prop

CanAcquireAlways(value) == TRUE

\* `async with semaphore` lets the task in while the value is positive
can_acquire(value) == value > 0

\* result_map = {prop["property_url"]: prop for prop in enhanced_properties}
\* (details_scraper.py 277): the last record of each url
result_map(enhanced) ==
    [url \in {enhanced[k].property_url : k \in 1..Len(enhanced)} |->
        LET last == CHOOSE k \in 1..Len(enhanced) :
                        /\ enhanced[k].property_url = url
                        /\ \A j \in (k + 1)..Len(enhanced) : enhanced[j].property_url # url
        IN enhanced[last]]

\* the merge loop (details_scraper.py 278-285)
merge(props, enhanced) ==
    [k \in 1..Len(props) |->
        IF props[k].property_url \in DOMAIN result_map(enhanced)
        THEN result_map(enhanced)[props[k].property_url]
        ELSE props[k]]

\* scrape_property_details up to asyncio.gather (details_scraper.py 244-274,
\* 311-314): the early returns, or the semaphore and one task per valid
\* property
ScrapePropertyDetails ==
    /\ details_pc = "idle"
    /\ IF listing = <<>> \/ valid_properties(listing) = <<>>
       THEN /\ final_properties' = listing
            /\ details_pc' = "done"
            /\ UNCHANGED <<semaphore, task, fate, results>>
       ELSE /\ semaphore' = max_concurrent_requests
            /\ task' = [k \in 1..Len(valid_properties(listing)) |-> "waiting"]
            /\ fate' = [k \in 1..Len(valid_properties(listing)) |-> "none"]
            /\ results' = [k \in 1..Len(valid_properties(listing)) |-> NotYet]
            /\ details_pc' = "gather"
            /\ UNCHANGED final_properties
    /\ UNCHANGED <<listing, max_concurrent_requests>>
    /\ UNCHANGED <<dbVars, apiVars, normVars, crawlVars>>

\* task t enters `async with semaphore` (details_scraper.py 300)
Acquire(t) ==
    /\ details_pc = "gather"
    /\ task[t] = "waiting"
    /\ can_acquire(semaphore)
    /\ semaphore' = semaphore - 1
    /\ task' = [task EXCEPT ![t] = "fetching"]
    /\ UNCHANGED <<listing, max_concurrent_requests, fate, results, final_properties,
                   details_pc>>
    /\ UNCHANGED <<dbVars, apiVars, normVars, crawlVars>>

\* the fetch of task t ends with f (details_scraper.py 302, 396-463): an
\* exception is caught, the original record returned and the semaphore
\* released (306-310); otherwise the task goes on to sleep
ScrapeSingle(t, f) ==
    /\ details_pc = "gather"
    /\ task[t] = "fetching"
    /\ fate' = [fate EXCEPT ![t] = f]
    /\ IF f = "exception"
       THEN /\ results' = [results EXCEPT ![t] = valid_properties(listing)[t]]
            /\ semaphore' = semaphore + 1
            /\ task' = [task EXCEPT ![t] = "done"]
       ELSE /\ task' = [task EXCEPT ![t] = "sleeping"]
            /\ UNCHANGED <<results, semaphore>>
    /\ UNCHANGED <<listing, max_concurrent_requests, final_properties, details_pc>>
    /\ UNCHANGED <<dbVars, apiVars, normVars, crawlVars>>

\* task t wakes from asyncio.sleep, returns and leaves `async with`
\* (details_scraper.py 304-305)
ReturnEnhanced(t) ==
    /\ details_pc = "gather"
    /\ task[t] = "sleeping"
    /\ results' = [results EXCEPT ![t] = task_result(valid_properties(listing)[t], fate[t])]
    /\ semaphore' = semaphore + 1
    /\ task' = [task EXCEPT ![t] = "done"]
    /\ UNCHANGED <<listing, max_concurrent_requests, fate, final_properties, details_pc>>
    /\ UNCHANGED <<dbVars, apiVars, normVars, crawlVars>>

\* asyncio.gather has every result; the merge and the return
\* (details_scraper.py 314-324, 276-290)
MergeResults ==
    /\ details_pc = "gather"
    /\ \A t \in 1..Len(task) : task[t] = "done"
    /\ final_properties' = merge(listing, results)
    /\ details_pc' = "done"
    /\ UNCHANGED <<listing, max_concurrent_requests, semaphore, task, fate, results>>
    /\ UNCHANGED <<dbVars, apiVars, normVars, crawlVars>>

AcquireSemaphore == \E t \in 1..Len(task) : Acquire(t)
ScrapeSingleProperty == \E t \in 1..Len(task), f \in Fates : ScrapeSingle(t, f)
Return == \E t \in 1..Len(task) : ReturnEnhanced(t)

\* one run of the detail stage on every list of up to MaxProps records,
\* without a concurrency section or with max_requests in 1..MaxRequests
InitDetailsRun ==
    /\ InitDb
    /\ db_file
    /\ InitApi
    /\ environ = NoEnviron
    /\ InitNorm
    /\ InitCrawl
    /\ listing \in SeqsUpTo(Listings, MaxProps)
    /\ \E concurrency \in {None} \cup 1..MaxRequests :
          max_concurrent_requests = max_requests_of(concurrency)
    /\ semaphore = 0
    /\ task = <<>>
    /\ fate = <<>>
    /\ results = <<>>
    /\ final_properties = <<>>
    /\ details_pc = "idle"

NextDetails ==
    \/ ScrapePropertyDetails
    \/ AcquireSemaphore
    \/ ScrapeSingleProperty
    \/ Return
    \/ MergeResults

SpecDetails == InitDetailsRun /\ [][NextDetails]_vars


\* -------------------------------------------------------------- crawl_all
\* what list_sites gives for one site file (loader.py 223-227)
SiteInfos == [name : Sources, enabled : BOOLEAN]

\* enabled_sites = [s for s in sites if s["enabled"]]  (main.py 284)
enabled(sites) == SelectSeq(sites, LAMBDA site : site.enabled)

\* what the pages of a site gave: the listings, none, or an exception of
\* the crawler
CrawlResults == {<<[property_url |-> "/a", area_sqft |-> 50,
                    rent_price_brl |-> 1000, condo_fee_brl |-> 300]>>}
FetchOutcomes == {"results", "empty", "exception"}

\* the settings of the environment under which get_syncer gives the local
\* backend or raises
LocalEnvirons == {env \in Environs : get_syncer(env).cls # "ApiSync"}

SyncReportNoSkip(out, exc) ==
    IF out = "returned" THEN "synced" ELSE "sync failed"

\* the try statement around syncer.sync_properties (main.py 268-276): what
\* crawl prints; none of the three arms raises
sync_report(out, exc) ==
    IF out = "returned" THEN "synced"
    ELSE IF exc = "FileNotFoundError" THEN "sync skipped"
    ELSE "sync failed"

\* the end of one iteration of the loop of crawl_all (main.py 293-305): the
\* next site, or the summary after the last one
NextSite(failed_now) ==
    /\ failed' = failed_now
    /\ all_results' = <<>>
    /\ IF site_no < Len(enabled_sites)
       THEN /\ site_no' = site_no + 1
            /\ crawl_pc' = "load"
            /\ UNCHANGED summary
       ELSE /\ crawl_pc' = "done"
            /\ summary' = [succeeded |-> Len(enabled_sites) - Len(failed_now),
                           failed |-> failed_now]
            /\ UNCHANGED site_no

\* `except Exception` of crawl_all (main.py 299-301)
CrawlFailed(what) ==
    /\ reports' = Append(reports, [site |-> enabled_sites[site_no].name, what |-> what])
    /\ NextSite(Append(failed, enabled_sites[site_no].name))

\* crawl returned
CrawlReturned(what) ==
    /\ reports' = Append(reports, [site |-> enabled_sites[site_no].name, what |-> what])
    /\ NextSite(failed)

\* crawl_all up to its loop (main.py 281-292)
CrawlAll ==
    /\ crawl_pc = "idle"
    /\ \E sites \in SeqsUpTo(SiteInfos, MaxSites) :
          /\ enabled_sites' = enabled(sites)
          /\ IF enabled(sites) = <<>>
             THEN /\ crawl_pc' = "done"
                  /\ UNCHANGED site_no
             ELSE /\ crawl_pc' = "load"
                  /\ site_no' = 1
    /\ UNCHANGED <<failed, all_results, attempted, reports, summary>>
    /\ UNCHANGED <<dbVars, apiVars, normVars, detailVars>>

\* crawl(site_stem, ...) is called and loads the configuration of the site
\* (main.py 298, 99-108; loader.py 67-119): get_site_config raises ValueError
\* for a file that is not there under that name or does not validate, and
\* crawl answers with sys.exit(1), whose SystemExit is no Exception and
\* leaves crawl_all
LoadSiteConfig(loaded) ==
    /\ crawl_pc = "load"
    /\ attempted' = Append(attempted, enabled_sites[site_no].name)
    /\ IF loaded
       THEN /\ crawl_pc' = "fetch"
            /\ UNCHANGED reports
       ELSE /\ crawl_pc' = "exited"
            /\ reports' = Append(reports, [site |-> enabled_sites[site_no].name,
                                           what |-> "config error"])
    /\ UNCHANGED <<enabled_sites, site_no, failed, all_results, summary>>
    /\ UNCHANGED <<dbVars, apiVars, normVars, detailVars>>

GetSiteConfig == \E loaded \in BOOLEAN : LoadSiteConfig(loaded)

\* the pages of the site (main.py 110-232), without a detail stage
FetchPages(o, found) ==
    /\ crawl_pc = "fetch"
    /\ CASE o = "exception" -> CrawlFailed("crawl error")
         [] o = "empty" -> CrawlReturned("no results")
         [] o = "results" ->
               /\ all_results' = found
               /\ crawl_pc' = "sync"
               /\ UNCHANGED <<site_no, failed, reports, summary>>
    /\ UNCHANGED <<enabled_sites, attempted>>
    /\ UNCHANGED <<dbVars, apiVars, normVars, detailVars>>

FetchAndProcess == \E o \in FetchOutcomes, found \in CrawlResults : FetchPages(o, found)

\* get_syncer outside the try statement, then syncer.sync_properties up to
\* its get_connection (main.py 263-269)
SyncToDatabase ==
    /\ crawl_pc = "sync"
    /\ IF get_syncer(environ).raised # "none"
       THEN /\ CrawlFailed("get_syncer error")
            /\ UNCHANGED <<dbVars, apiVars, normVars, detailVars>>
       ELSE /\ Call(enabled_sites[site_no].name, all_results)
            /\ crawl_pc' = "syncing"
            /\ UNCHANGED <<site_no, failed, all_results, reports, summary>>
    /\ UNCHANGED <<enabled_sites, attempted>>

\* sync_properties has returned or raised: the three arms of the try
\* statement, and the return of crawl (main.py 268-276)
AfterSync ==
    /\ crawl_pc = "syncing"
    /\ pc = "done"
    /\ CrawlReturned(sync_report(outcome, raised))
    /\ UNCHANGED <<enabled_sites, attempted>>
    /\ UNCHANGED <<dbVars, apiVars, normVars, detailVars>>

\* one run of crawl_all, with and without a database file, under every
\* setting of the environment that does not select the remote backend
InitCrawlAll ==
    /\ InitDb
    /\ InitApi
    /\ environ \in LocalEnvirons
    /\ InitNorm
    /\ InitDetails
    /\ InitCrawl

NextCrawl ==
    \/ CrawlAll
    \/ GetSiteConfig
    \/ FetchAndProcess
    \/ SyncToDatabase
    \/ StartLog
    \/ Upsert
    \/ MarkRemovedProperties
    \/ FinishLog
    \/ Commit
    \/ Except
    \/ Finally
    \/ AfterSync

SpecCrawl == InitCrawlAll /\ [][NextCrawl]_vars


\* ---------------------------------------------------------------- claims
Rows(t) == 1..Len(t.properties)

Returned == pc = "done" /\ outcome = "returned"
Failed == pc = "done" /\ outcome = "raised"

\* C1: when sync_properties has raised, the persisted properties and
\* price-history tables are exactly what they were before the call.
C1_FailedRunLeavesNoWrites ==
    Failed => /\ db.properties = pre.properties
              /\ db.price_histories = pre.price_histories

\* C1 witness: the second property of the input failed on its write after the
\* first one had been written inside the transaction.
C1_Witness ==
    /\ Failed
    /\ i = 2
    /\ step.result = "raised"
    /\ step.fp = "write"
    /\ step.before.properties # pre.properties

\* C2: when sync_properties fails after its run record was started, the
\* persisted sync_logs hold an entry for that run with status 'failed' and the
\* error message, and the original exception reaches the caller.
C2_FailedRunIsLogged ==
    (Failed /\ sync_log_id # None) =>
        /\ \E k \in 1..Len(db.sync_logs) :
              /\ db.sync_logs[k].id = sync_log_id
              /\ db.sync_logs[k].status = "failed"
              /\ db.sync_logs[k].error_message = exception
        /\ raised = exception

UnseenActive(k) ==
    /\ pre.properties[k].source = source
    /\ pre.properties[k].status = "active"
    /\ pre.properties[k].external_id \notin SeqToSet(seen_external_ids)

RemovalMarking ==
    /\ \A k \in Rows(pre) : UnseenActive(k) => db.properties[k].status = "removed"
    /\ \A k \in Rows(db) :
          (/\ db.properties[k].source = source
           /\ db.properties[k].external_id \in SeqToSet(seen_external_ids))
          => db.properties[k].status # "removed"

\* C3 as stated: after a successful run for source S over any input list,
\* every row of S that was active and is not among the input's external ids
\* is removed, and no row whose external id is in the input is removed.
C3_RemovalForEveryInput == Returned => RemovalMarking

\* C3 amended: the same for every non-empty input list.
C3_RemovalForNonEmptyInput ==
    (Returned /\ properties # <<>>) => RemovalMarking

\* C3 witness: a non-empty run that returned and had an active row of its
\* source to mark, next to a row it had just seen again.
C3_Witness ==
    /\ Returned
    /\ properties # <<>>
    /\ \E k \in Rows(pre) : UnseenActive(k)
    /\ \E k \in Rows(pre) :
          /\ pre.properties[k].source = source
          /\ pre.properties[k].external_id \in SeqToSet(seen_external_ids)


\* C5: the statistics of a successful run hold the four counts added,
\* updated, found and removed, and removed is the number of rows the run took
\* from 'active' to 'removed'.
C5_StatsCountRemoved ==
    Returned =>
        /\ DOMAIN stats = {"added", "updated", "found", "removed"}
        /\ stats["removed"] =
              Cardinality({k \in Rows(pre) :
                              /\ pre.properties[k].status = "active"
                              /\ db.properties[k].status = "removed"})

\* the rows of t with the key (external_id, src)
WithKey(t, external_id, src) ==
    {k \in Rows(t) : /\ t.properties[k].external_id = external_id
                     /\ t.properties[k].source = src}

\* C6: a run for source S leaves every row of another source unchanged,
\* attaches no price-history entry to such a row, and classifies an input as
\* 'updated' only because of a row of S.
C6_CrossSourceIsolation ==
    (pc # "idle") =>
        /\ \A k \in Rows(pre) :
              pre.properties[k].source # source =>
                  /\ tx.properties[k] = pre.properties[k]
                  /\ db.properties[k] = pre.properties[k]
        /\ \A h \in (Len(pre.price_histories) + 1)..Len(tx.price_histories) :
              tx.properties[tx.price_histories[h].property_id].source = source
        /\ \A h \in (Len(pre.price_histories) + 1)..Len(db.price_histories) :
              db.properties[db.price_histories[h].property_id].source = source
        /\ step.result = "updated" =>
              WithKey(step.before, step.prop.external_id, source) # {}

\* C6 witness: a run that returned after an input's external id collided with
\* the external id of a row of another source.
C6_Witness ==
    /\ Returned
    /\ \E k \in Rows(pre) :
          /\ pre.properties[k].source # source
          /\ pre.properties[k].external_id \in SeqToSet(seen_external_ids)

OneRowPerKey(t) ==
    \A j, k \in Rows(t) :
        (/\ t.properties[j].external_id = t.properties[k].external_id
         /\ t.properties[j].source = t.properties[k].source) => j = k

\* C7: the properties table holds at most one row per (external_id, source),
\* committed or inside a run's transaction.
C7_OneRowPerKey == OneRowPerKey(db) /\ OneRowPerKey(tx)

\* C7 witness: a run whose input held the same record twice has returned.
C7_Witness ==
    /\ Returned
    /\ Len(properties) = 2
    /\ properties[1] = properties[2]
    /\ Len(db.properties) > Len(pre.properties)

\* the row an iteration found stored under its record's key
StoredRow ==
    LET k == CHOOSE k \in WithKey(step.before, step.prop.external_id, step.prop.source) : TRUE
    IN step.before.properties[k]

StepPriceDiffers ==
    \/ StoredRow.rent_price # step.prop.rent_price
    \/ StoredRow.condo_fee # step.prop.condo_fee

StepNewEntries ==
    SubSeq(step.after.price_histories,
           Len(step.before.price_histories) + 1, Len(step.after.price_histories))

\* C8: an update whose rent price or condo fee differs from the stored one
\* writes exactly one price-history entry with the stored rent price and condo
\* fee, before the row is changed; an update with equal prices and an insert
\* write none.
C8_PriceHistoryOnChange ==
    /\ step.result = "added" => StepNewEntries = <<>>
    /\ (step.result = "updated" /\ ~StepPriceDiffers) => StepNewEntries = <<>>
    /\ (step.result = "updated" /\ StepPriceDiffers) =>
          /\ Len(StepNewEntries) = 1
          /\ StepNewEntries[1].property_id = StoredRow.id
          /\ StepNewEntries[1].rent_price = StoredRow.rent_price
          /\ StepNewEntries[1].condo_fee = StoredRow.condo_fee
    /\ (step.result = "raised" /\ step.fp = "write"
            /\ WithKey(step.before, step.prop.external_id, step.prop.source) # {}
            /\ StepPriceDiffers) =>
          /\ Len(StepNewEntries) = 1
          /\ step.after.properties = step.before.properties

\* C8 witness: an update with a changed price has written its entry.
C8_Witness ==
    /\ step.result = "updated"
    /\ StepPriceDiffers
    /\ Len(StepNewEntries) = 1

\* C9: the total_price of a price-history entry is the total_price the row
\* held just before the update that wrote the entry.
C9_HistoryTotalIsStoredTotal ==
    (step.result = "updated" /\ StepNewEntries # <<>>) =>
        StepNewEntries[1].total_price = StoredRow.total_price

Distinct(seq) == \A j, k \in 1..Len(seq) : seq[j] = seq[k] => j = k

Unseen(row) == [row EXCEPT !.last_seen_at = 0, !.updated_at = 0]

\* two runs in succession with the same source and the same list of
\* properties, no external id twice
SameBatchTwice(n) ==
    /\ runs[n - 1].source = runs[n].source
    /\ runs[n - 1].properties = runs[n].properties
    /\ runs[n].pre = runs[n - 1].post
    /\ Distinct(runs[n].seen)

\* C10: the second of two runs over the same unchanged list of N distinct
\* properties counts added=0 and updated=N, writes no price-history entry,
\* marks nothing removed and changes no stored field but last_seen_at and
\* updated_at.
C10_UpsertIdempotence ==
    \A n \in 2..Len(runs) :
        SameBatchTwice(n) =>
            /\ runs[n].stats.added = 0
            /\ runs[n].stats.updated = Len(runs[n].properties)
            /\ runs[n].post.price_histories = runs[n].pre.price_histories
            /\ Len(runs[n].post.properties) = Len(runs[n].pre.properties)
            /\ \A k \in Rows(runs[n].pre) :
                  Unseen(runs[n].post.properties[k]) = Unseen(runs[n].pre.properties[k])

\* C10 witness: a list of two properties was synced twice in succession.
C10_Witness ==
    \E n \in 2..Len(runs) :
        /\ SameBatchTwice(n)
        /\ Len(runs[n].properties) = 2
        /\ runs[n].post.properties # runs[n].pre.properties


\* the one row of t with the key (external_id, src)
TheRow(t, external_id, src) ==
    t.properties[CHOOSE k \in WithKey(t, external_id, src) : TRUE]

Active(t, external_id, src) ==
    /\ Cardinality(WithKey(t, external_id, src)) = 1
    /\ TheRow(t, external_id, src).status = "active"

\* runs n-2, n-1 and n synced [A, B], then [A], then [A, B] for one source
IsRoundTrip(n, A, B) ==
    /\ A # B
    /\ runs[n - 2].source = runs[n].source
    /\ runs[n - 1].source = runs[n].source
    /\ runs[n - 2].seen = <<A, B>>
    /\ runs[n - 1].seen = <<A>>
    /\ runs[n].seen = <<A, B>>

\* C4: after syncing [A, B] both rows are active; after then syncing [A], B
\* is removed and A still active; after syncing [A, B] again B is active
\* again and is the row it was, with the same id.
C4_RemovalRoundTrip ==
    \A n \in 3..Len(runs) : \A A, B \in 0..HashSpace :
        IsRoundTrip(n, A, B) =>
            LET S == runs[n].source
                first == runs[n - 2].post
                second == runs[n - 1].post
                third == runs[n].post
            IN /\ Active(first, A, S) /\ Active(first, B, S)
               /\ Active(second, A, S)
               /\ Cardinality(WithKey(second, B, S)) = 1
               /\ TheRow(second, B, S).status = "removed"
               /\ Active(third, A, S) /\ Active(third, B, S)
               /\ TheRow(third, B, S).id = TheRow(first, B, S).id
               /\ TheRow(third, A, S).id = TheRow(first, A, S).id
               /\ Len(third.properties) = Len(first.properties)

\* C4 witness: the three runs of the round trip have returned.
C4_Witness ==
    \E n \in 3..Len(runs) : \E A, B \in 0..HashSpace : IsRoundTrip(n, A, B)

\* the columns that identify a row and date its creation
Identity(row) == <<row.id, row.first_seen_at, row.external_id, row.source>>

\* C11: once a row exists, no step of any later sync (update on
\* re-observation, price change, removal marking, reactivation, commit,
\* rollback) changes its id, its first_seen_at or its (external_id, source):
\* a committed row stays where it is with the same identity, and a row the
\* connection sees keeps its identity for as long as it is there.
C11_IdentityIsStable ==
    [][/\ \A k \in Rows(db) :
            /\ k \in Rows(db')
            /\ Identity(db'.properties[k]) = Identity(db.properties[k])
       /\ \A k \in Rows(tx) :
            k \in Rows(tx') =>
                Identity(tx'.properties[k]) = Identity(tx.properties[k])]_vars

\* C11 witness: a run has returned in which a row that was marked removed by
\* an earlier run was reactivated with another price, after it was created by
\* a still earlier run.
C11_Witness ==
    /\ Returned
    /\ \E k \in Rows(pre) :
          /\ pre.properties[k].status = "removed"
          /\ db.properties[k].status = "active"
          /\ db.properties[k].condo_fee # pre.properties[k].condo_fee
          /\ db.properties[k].first_seen_at < db.properties[k].last_seen_at
          /\ Identity(db.properties[k]) = Identity(pre.properties[k])

\* the row was observed by the run that has just returned
SeenByRun(row) ==
    /\ row.source = source
    /\ row.external_id \in SeqToSet(seen_external_ids)

\* C12: after a run has returned, every row it inserted or updated has
\* last_seen_at equal to the time of that run (and first_seen_at equal to it
\* as well when the run inserted the row); every other row, a row the run
\* marked removed included, existed before and has the last_seen_at it had.
C12_LastSeenAt ==
    Returned =>
        \A k \in Rows(db) :
            IF SeenByRun(db.properties[k])
            THEN /\ db.properties[k].last_seen_at = clock
                 /\ k \notin Rows(pre) =>
                        db.properties[k].first_seen_at = db.properties[k].last_seen_at
            ELSE /\ k \in Rows(pre)
                 /\ db.properties[k].last_seen_at = pre.properties[k].last_seen_at

\* C12 witness: the run that returned inserted one row and marked another,
\* last seen by an earlier run, as removed.
C12_Witness ==
    /\ Returned
    /\ \E k \in Rows(db) : k \notin Rows(pre) /\ SeenByRun(db.properties[k])
    /\ \E k \in Rows(pre) :
          /\ pre.properties[k].status = "active"
          /\ db.properties[k].status = "removed"
          /\ db.properties[k].last_seen_at < clock

\* ---------------------------------------------- claims: remote backend
PostsOf(b) == SelectSeq(posts, LAMBDA p : p.i = b)
SleepsOf(b) == SelectSeq(sleeps, LAMBDA z : z.i = b)

IsClientError(r) == r.exception = "none" /\ 400 <= r.status_code /\ r.status_code < 500
IsServerError(r) == r.exception = "none" /\ r.status_code >= 500
IsNetworkError(r) == r.exception # "none"
IsError(r) == IsClientError(r) \/ IsServerError(r) \/ IsNetworkError(r)
IsAppError(r) ==
    /\ r.exception = "none"
    /\ 200 <= r.status_code /\ r.status_code < 300
    /\ r.status = "error"

ApiReturned == api_pc = "done" /\ api_outcome = "returned"
ApiFailed == api_pc = "done" /\ api_outcome = "raised"

\* C13: once a request has been answered with a 4xx status, the call is over
\* with an HTTP error; when it answered the first request of the batch, that
\* request is the only one of the batch and no delay was waited.
C13_ClientErrorNotRetried ==
    IsClientError(response) =>
        /\ ApiFailed
        /\ api_raised = "HTTPError"
        /\ replies = {response} =>
              /\ Len(PostsOf(batch_no)) = 1
              /\ SleepsOf(batch_no) = <<>>

\* C14: every batch is requested at most 1 + max_retries times; the k-th wait
\* of a batch lasts initial_delay * 2^(k-1) and k waits precede request k + 1,
\* whichever errors caused them; a request is repeated only after an error, and
\* the response handed back to sync_properties is not an error; a 5xx or a
\* network error is retried while the budget lasts, and once the last allowed
\* request has failed with one, that error is what is raised.
C14_RetryBudgetAndBackoff ==
    /\ \A b \in 1..Len(batches) :
          /\ Len(PostsOf(b)) <= 1 + max_retries
          /\ Len(PostsOf(b)) <= Len(SleepsOf(b)) + 1
          /\ \A k \in 1..Len(SleepsOf(b)) :
                SleepsOf(b)[k].seconds = initial_delay * 2^(k - 1)
    /\ api_pc = "response" => ~IsError(response)
    /\ (api_pc = "post" /\ attempt > 0) => IsError(response)
    /\ (IsServerError(response) \/ IsNetworkError(response)) =>
          IF Len(PostsOf(batch_no)) < 1 + max_retries
          THEN api_pc = "post" /\ Len(SleepsOf(batch_no)) = Len(PostsOf(batch_no))
          ELSE ApiFailed /\ api_raised = exc_of(response)

\* C14 witness: the fourth request of a batch was answered without error after
\* a 5xx response and a network error, in either order, and waits of 1, 2 and
\* 4 seconds.
C14_Witness ==
    /\ api_pc = "response"
    /\ Len(PostsOf(batch_no)) = 1 + max_retries
    /\ \E r1, r2 \in replies : IsServerError(r1) /\ IsNetworkError(r2)
    /\ [k \in 1..Len(SleepsOf(batch_no)) |-> SleepsOf(batch_no)[k].seconds] = <<1, 2, 4>>

\* C15: in a run over a non-empty input, a request carries finalize = true
\* exactly when it is for the last batch, and the key all_external_ids exactly
\* then; when it was sent every earlier batch had been answered successfully;
\* and its all_external_ids holds the external id of every input property.
C15_FinalizeOnLastBatchOnly ==
    \A k \in 1..Len(posts) :
        LET p == posts[k]
        IN /\ p.payload.finalize <=> p.i = Len(batches)
           /\ "all_external_ids" \in p.payload.keys <=> p.i = Len(batches)
           /\ \A b \in 1..(p.i - 1) : b \in SeqToSet(accepted)
           /\ p.payload.finalize =>
                 \A j \in 1..Len(api_properties) :
                     api_properties[j].external_id \in SeqToSet(p.payload.all_external_ids)

\* C15 witness: a run over three properties, two of them different, in
\* batches of two has returned: its second and last batch holds one property.
C15_Witness ==
    /\ ApiReturned
    /\ batch_size = 2
    /\ Len(api_properties) = 3
    /\ Len(batches) = 2
    /\ Cardinality(SeqToSet(all_external_ids)) = 2
    /\ \E k \in 1..Len(posts) : posts[k].payload.finalize

FinalizePosts == {k \in 1..Len(posts) : posts[k].payload.finalize}

\* C16 as claimed: in a run that has returned, exactly one request with
\* finalize = true was sent, and every batch was sent exactly once.
C16_FinalizeSentExactlyOnce ==
    ApiReturned =>
        /\ Cardinality(FinalizePosts) = 1
        /\ \A b \in 1..Len(batches) : Len(PostsOf(b)) = 1

\* C16 as amended: in a run over a non-empty input that has returned, the
\* batches were accepted once each and in order; every batch was sent at
\* least once and at most 1 + max_retries times, once more than there were
\* waits for it; the finalize requests are the requests of the last batch. A
\* run over an empty input returns without any request.
C16_FinalizeAcceptedExactlyOnce ==
    ApiReturned =>
        /\ accepted = [b \in 1..Len(batches) |-> b]
        /\ \A b \in 1..Len(batches) :
              /\ Len(PostsOf(b)) >= 1
              /\ Len(PostsOf(b)) <= 1 + max_retries
              /\ Len(PostsOf(b)) = Len(SleepsOf(b)) + 1
        /\ FinalizePosts = {k \in 1..Len(posts) : posts[k].i = Len(batches)}
        /\ api_properties # <<>> => FinalizePosts # {}
        /\ api_properties = <<>> => posts = <<>>

\* C16 witness: a run of two batches has returned whose finalize request timed
\* out and was sent a second time.
C16_Witness ==
    /\ ApiReturned
    /\ Len(batches) = 2
    /\ Cardinality(FinalizePosts) = 2
    /\ \E r \in replies : IsNetworkError(r)

\* the reply that makes the current batch fail: an error in a 2xx body, or an
\* error answer to the last request the budget allows
BatchFails ==
    \/ IsAppError(response)
    \/ IsError(response) /\ Len(PostsOf(batch_no)) = 1 + max_retries

\* C17: once a batch has failed, no request is sent any more: the requests
\* sent are for that batch and the ones before it, none of them a finalize
\* request unless the failing batch is the last, and the call ends with an
\* exception and returns no statistics.
C17_FailedBatchAbortsRun ==
    BatchFails =>
        /\ api_pc \in {"response", "done"}
        /\ posts[Len(posts)].i = batch_no
        /\ batch_no < Len(batches) => FinalizePosts = {}
        /\ api_returned = NoReturn
        /\ api_pc = "done" => api_outcome = "raised" /\ api_raised # "none"

\* C17 witness: the second of three batches failed after the first had been
\* accepted and its statistics added.
C17_Witness ==
    /\ ApiFailed
    /\ Len(batches) = 3
    /\ batch_no = 2
    /\ accepted = <<1>>
    /\ total_stats # ZeroStats
    /\ IsServerError(response)

\* C18: after a 2xx response whose body has status 'error', no request is
\* sent, for this batch or a later one; the statistics of the response are
\* not added (the totals are those of the batches accepted before); and
\* the call ends with a RuntimeError and returns nothing.
C18_AppErrorIsHardFailure ==
    IsAppError(response) =>
        /\ api_pc \in {"response", "done"}
        /\ posts[Len(posts)].i = batch_no
        /\ Len(PostsOf(batch_no)) = attempt + 1
        /\ batch_no \notin SeqToSet(accepted)
        /\ total_stats.found = Len(accepted)
        /\ api_returned = NoReturn
        /\ api_pc = "done" => api_outcome = "raised" /\ api_raised = "RuntimeError"

\* C18 witness: the second of three batches was answered 200 with status
\* 'error' at its first request, after the first batch had been accepted.
C18_Witness ==
    /\ ApiFailed
    /\ api_raised = "RuntimeError"
    /\ Len(batches) = 3
    /\ batch_no = 2
    /\ accepted = <<1>>
    /\ Len(PostsOf(2)) = 1

\* C19: with VPC_API_URL or VPC_API_KEY unset or empty, constructing ApiSync
\* raises ValueError and no request is made. get_syncer gives the remote
\* backend when VPC_API_URL is set and the key too, the local backend when
\* VPC_API_URL is unset or empty, and raises ValueError, with no backend and
\* no request, when VPC_API_URL is set and the key is not.
C19_ConfigurationErrors ==
    LET url == Truthy(environ.VPC_API_URL)
        key == Truthy(environ.VPC_API_KEY)
        config_error == /\ ApiFailed
                        /\ api_raised = "ValueError"
                        /\ syncer = "none"
                        /\ posts = <<>>
                        /\ api_properties = <<>>
    IN /\ entry = "ApiSync" =>
            /\ ~(url /\ key) => config_error
            /\ (url /\ key) => syncer = "ApiSync"
       /\ entry = "sync.py" =>
            /\ syncer = "ApiSync" <=> (url /\ key)
            /\ syncer = "DatabaseSync" <=> ~url
            /\ (url /\ ~key) => config_error

\* C19 witness: the sync command ran with VPC_API_URL set and VPC_API_KEY
\* empty.
C19_Witness ==
    /\ entry = "sync.py"
    /\ environ.VPC_API_URL = "set"
    /\ environ.VPC_API_KEY = ""
    /\ ApiFailed
    /\ api_raised = "ValueError"

\* C20: when the sync command got the local backend from get_syncer, its call
\* sync_properties(properties, batch_size=n) returns a dict with the keys
\* added, updated, found and removed.
C20_LocalBackendSameContract ==
    (api_pc = "done" /\ entry = "sync.py" /\ syncer = "DatabaseSync") =>
        /\ api_outcome = "returned"
        /\ DOMAIN api_returned = DOMAIN ZeroStats

\* ------------------------------------------ claims: run record, soft removal
\* C24: once a call that started its run record is over, the database holds
\* the record of that run with status 'completed' or 'failed'; no persisted
\* record has status 'running'; and the records persisted by the runs that
\* returned are still what they were then.
C24_RunRecordFinalizedOnce ==
    /\ (pc = "done" /\ sync_log_id # None) =>
          \E k \in 1..Len(db.sync_logs) :
              /\ db.sync_logs[k].id = sync_log_id
              /\ db.sync_logs[k].status \in {"completed", "failed"}
    /\ \A k \in 1..Len(db.sync_logs) : db.sync_logs[k].status # "running"
    /\ \A n \in 1..Len(runs) :
          \A k \in 1..Len(runs[n].post.sync_logs) :
              /\ k <= Len(db.sync_logs)
              /\ db.sync_logs[k] = runs[n].post.sync_logs[k]

\* C27: no step removes a committed property row or changes its id, and no
\* step removes or changes a committed price-history entry; a committed row
\* that becomes 'removed' changes in its status only; and the removal marking
\* itself leaves the rows in place, changes nothing but the status of the rows
\* it marks, and leaves the price history as it is.
C27_SoftRemovalOnly ==
    [][/\ \A k \in Rows(db) :
            /\ k \in Rows(db')
            /\ db'.properties[k].id = db.properties[k].id
            /\ (db.properties[k].status = "active"
                    /\ db'.properties[k].status = "removed") =>
                  db'.properties[k] = [db.properties[k] EXCEPT !.status = "removed"]
       /\ \A h \in 1..Len(db.price_histories) :
            /\ h <= Len(db'.price_histories)
            /\ db'.price_histories[h] = db.price_histories[h]
       /\ (pc = "mark" /\ pc' = "finish") =>
            /\ Len(tx'.properties) = Len(tx.properties)
            /\ \A k \in Rows(tx) :
                  \/ tx'.properties[k] = tx.properties[k]
                  \/ tx'.properties[k] = [tx.properties[k] EXCEPT !.status = "removed"]
            /\ tx'.price_histories = tx.price_histories]_vars

\* C27 witness: the run that returned marked as removed a row that has an entry
\* in the price history.
C27_Witness ==
    /\ Returned
    /\ \E k \in Rows(pre) :
          /\ pre.properties[k].status = "active"
          /\ db.properties[k].status = "removed"
          /\ \E h \in 1..Len(db.price_histories) :
                db.price_histories[h].property_id = db.properties[k].id

\* the external ids of the input of the current call
InputIds ==
    {from_procrawl(properties[k], source, base_urls(source)).external_id :
        k \in 1..Len(properties)}

\* the external ids the source had rows for when the call began
PriorIds ==
    {pre.properties[k].external_id :
        k \in {j \in Rows(pre) : pre.properties[j].source = source}}

\* C28: after a run has returned, found is the length of the input, added +
\* updated = found, and added is the number of different (external_id, source)
\* of the input that had no row before the run, which is the number of rows
\* the run created.
C28_FoundIsAddedPlusUpdated ==
    Returned =>
        /\ stats.found = Len(properties)
        /\ stats.added + stats.updated = stats.found
        /\ stats.added = Cardinality(InputIds \ PriorIds)
        /\ stats.added = Len(db.properties) - Len(pre.properties)

\* C28 witness: a run over two records of one external id, on a database
\* without rows, has returned: one was added and the duplicate updated.
C28_Witness ==
    /\ Returned
    /\ pre.properties = <<>>
    /\ Len(properties) = 2
    /\ Cardinality(InputIds) = 1
    /\ stats.added = 1
    /\ stats.updated = 1

\* ------------------------------------------------------ claims: normalizer
\* what the claim takes for the number in a raw value: the value of a number
\* or of a numeric string, null for everything else
Parsed(v) == IF py_number(v).raises = "none" /\ v.type # "NoneType"
             THEN py_number(v).n ELSE None

\* C22: from_procrawl returns for every record; each numeric field is the
\* number in the raw value, or null when there is none; and total_price is
\* rent_price + condo_fee, with 0 for a null condo_fee, when rent_price is
\* not null, and null otherwise.
C22_NormalizerIsTotal ==
    rails_prop # NotYet =>
        /\ rails_prop.raises = "none"
        /\ rails_prop.rent_price = Parsed(prop_data.rent_price_brl)
        /\ rails_prop.condo_fee = Parsed(prop_data.condo_fee_brl)
        /\ rails_prop.area_sqm = Parsed(prop_data.area_sqft)
        /\ rails_prop.bedrooms = Parsed(prop_data.bedrooms)
        /\ rails_prop.total_price =
              IF rails_prop.rent_price # None
              THEN rails_prop.rent_price + Or0(rails_prop.condo_fee)
              ELSE None

\* the list without the repetitions of its elements, first occurrences kept
RECURSIVE Dedup(_)
Dedup(seq) ==
    IF seq = <<>> THEN <<>>
    ELSE LET front == Dedup(SubSeq(seq, 1, Len(seq) - 1))
             x == seq[Len(seq)]
         IN IF x \in SeqToSet(front) THEN front ELSE Append(front, x)

\* C23: when from_procrawl has returned, its image list is the image_urls
\* input (a string taken as a list of one) in the input order without
\* repetitions, and main_image_url is its first element, or null when it is
\* empty.
C23_ImagesDeduplicated ==
    (rails_prop # NotYet /\ rails_prop.raises = "none") =>
        LET given == IF prop_data.image_urls.type = "str"
                     THEN IF prop_data.image_urls.s # <<>>
                          THEN <<prop_data.image_urls.s>> ELSE <<>>
                     ELSE IF prop_data.image_urls.type = "list"
                     THEN prop_data.image_urls.items
                     ELSE <<>>
        IN /\ rails_prop.image_urls = Dedup(given)
           /\ rails_prop.main_image_url =
                 IF Dedup(given) = <<>> THEN None ELSE Dedup(given)[1]

\* ----------------------------------------------- claims: remote batching
RECURSIVE Flatten(_)
Flatten(seqs) ==
    IF seqs = <<>> THEN <<>>
    ELSE Flatten(SubSeq(seqs, 1, Len(seqs) - 1)) \o seqs[Len(seqs)]

RECURSIVE SumStats(_)
SumStats(seq) ==
    IF seq = <<>> THEN ZeroStats
    ELSE add_stats(SumStats(SubSeq(seq, 1, Len(seq) - 1)), seq[Len(seq)])

\* C29: the batches of a call of ApiSync.sync_properties, concatenated in
\* order, are the normalized input; every batch but the last has batch_size
\* records and the last has 1..batch_size; the requests carry the batches in
\* order, a request for batch k+1 is made only when batches 1..k were
\* answered; and the returned statistics are the sums of the answers.
C29_BatchesPartitionInput ==
    (syncer = "ApiSync" /\ api_pc # "idle") =>
        /\ Flatten(batches) = api_properties
        /\ \A k \in 1..Len(batches) :
              /\ Len(batches[k]) \in 1..batch_size
              /\ k < Len(batches) => Len(batches[k]) = batch_size
        /\ \A j \in 1..Len(posts) :
              /\ posts[j].payload.properties = batches[posts[j].i]
              /\ j > 1 => posts[j - 1].i \in {posts[j].i - 1, posts[j].i}
        /\ posts # <<>> => posts[1].i = 1
        /\ accepted = [k \in 1..Len(accepted) |-> k]
        /\ posts # <<>> =>
              posts[Len(posts)].i \in {Len(accepted), Len(accepted) + 1}
        /\ Len(answers) = Len(accepted)
        /\ total_stats = SumStats(answers)
        /\ ApiReturned =>
              /\ Len(answers) = Len(batches)
              /\ api_returned = SumStats(answers)

C29_Witness ==
    /\ ApiReturned
    /\ Len(api_properties) = 3
    /\ batch_size = 2
    /\ Len(batches) = 2
    /\ Len(batches[2]) = 1
    /\ answers[1] # answers[2]
    /\ Len(posts) > 2

\* ------------------------------------------------- claims: detail stage
Holding == {t \in 1..Len(task) : task[t] \in {"fetching", "sleeping"}}
InFlight == {t \in 1..Len(task) : task[t] = "fetching"}

\* C25: at every moment of scrape_property_details the fetches in flight
\* are at most max_concurrent_requests; a task that fetches holds the
\* semaphore, whose value is the limit less the tasks inside `async with`;
\* and when the tasks are done, by whatever exit, every permit is back.
C25_FetchesBounded ==
    details_pc \in {"gather", "done"} /\ task # <<>> =>
        /\ Cardinality(InFlight) <= max_concurrent_requests
        /\ semaphore >= 0
        /\ semaphore = max_concurrent_requests - Cardinality(Holding)
        /\ details_pc = "done" => semaphore = max_concurrent_requests

C25_Witness ==
    /\ details_pc = "gather"
    /\ max_concurrent_requests = default_max_requests
    /\ Len(task) = 3
    /\ Cardinality(InFlight) = max_concurrent_requests
    /\ \E t \in 1..Len(task) : task[t] = "done" /\ fate[t] = "exception"

\* position in valid_properties of record k of the listing
TaskOf(k) == Len(valid_properties(SubSeq(listing, 1, k)))

\* C26: scrape_property_details returns one record per input property in
\* the input order: the original record for a property without a url and
\* for one whose fetch failed, and the record with its own details merged
\* in for every other one.
C26_FailureKeepsOriginal ==
    details_pc = "done" =>
        /\ Len(final_properties) = Len(listing)
        /\ \A k \in 1..Len(listing) :
              final_properties[k] =
                 IF task # <<>> /\ valid_url(listing[k]) /\ fate[TaskOf(k)] = "enhanced"
                 THEN enhance(listing[k])
                 ELSE listing[k]

FailureReports == {"config error", "crawl error", "get_syncer error", "sync failed"}

\* C30: when crawl_all is over, crawl was called once for every enabled
\* site in the listing order, and the summary names as failed exactly the
\* sites for which the configuration, the crawl or the sync failed.
C30_EverySiteAttempted ==
    (crawl_pc \in {"done", "exited"} /\ enabled_sites # <<>>) =>
        /\ attempted = [k \in 1..Len(enabled_sites) |-> enabled_sites[k].name]
        /\ Len(reports) = Len(enabled_sites)
        /\ summary.failed =
              LET bad == SelectSeq(reports, LAMBDA r : r.what \in FailureReports)
              IN [k \in 1..Len(bad) |-> bad[k].site]
        /\ summary.succeeded = Len(enabled_sites) - Len(summary.failed)

====
